---- MODULE Spec2Model ----
(***************************************************************************)
(* Model of src/windres/resource.h: the version-resource header of the     *)
(* Zabbix agent 2 PostgreSQL plugin.                                       *)
(*                                                                         *)
(* The header is run by the C preprocessor.  Its state is the macro table; *)
(* the build binds components on the command line (-DNAME=value), the      *)
(* header's #ifndef blocks then give a default to what is still undefined, *)
(* and the VER_* macros are expanded where resource.rc uses them.          *)
(*                                                                         *)
(* Text is a sequence of one-character strings, a preprocessing token is a *)
(* record, a macro body is a sequence of tokens.                           *)
(***************************************************************************)
EXTENDS Integers, Sequences, FiniteSets

VARIABLES macros, ext, pc, desc

vars == <<macros, ext, pc, desc>>

---------------------------------------------------------------------------
(* Bounds of the model. *)

\* Version numbers the build supplies are 0, 12, ..., 12 * MaxMultiple.
MaxMultiple == 1

\* At most this many components are bound to a negative or non-integral value.
MaxInvalid == 1

---------------------------------------------------------------------------
(* Preprocessing tokens. *)

Num(n) == [k |-> "num", n |-> n, s |-> <<>>]

PPNum(s) == [k |-> "ppnum", n |-> 0, s |-> s]

Ident(s) == [k |-> "id", n |-> 0, s |-> s]

Punct(c) == [k |-> "punct", n |-> 0, s |-> <<c>>]

StrLit(s) == [k |-> "str", n |-> 0, s |-> s]

\* The character written \0 in the header's string literals.
NUL == "\\0"

---------------------------------------------------------------------------
(* The macro names of the header, by their spelling. *)

VER_FILEDESCRIPTION_STR ==
    <<"V", "E", "R", "_", "F", "I", "L", "E", "D", "E", "S", "C", "R", "I", "P",
      "T", "I", "O", "N", "_", "S", "T", "R">>

ZABBIX_VERSION_MAJOR ==
    <<"Z", "A", "B", "B", "I", "X", "_", "V", "E", "R", "S", "I", "O", "N", "_",
      "M", "A", "J", "O", "R">>

ZABBIX_VERSION_MINOR ==
    <<"Z", "A", "B", "B", "I", "X", "_", "V", "E", "R", "S", "I", "O", "N", "_",
      "M", "I", "N", "O", "R">>

ZABBIX_VERSION_PATCH ==
    <<"Z", "A", "B", "B", "I", "X", "_", "V", "E", "R", "S", "I", "O", "N", "_",
      "P", "A", "T", "C", "H">>

ZABBIX_VERSION_RC ==
    <<"Z", "A", "B", "B", "I", "X", "_", "V", "E", "R", "S", "I", "O", "N", "_",
      "R", "C">>

ZABBIX_VERSION_RC_NUM ==
    <<"Z", "A", "B", "B", "I", "X", "_", "V", "E", "R", "S", "I", "O", "N", "_",
      "R", "C", "_", "N", "U", "M">>

ZABBIX_RC_NUM ==
    <<"Z", "A", "B", "B", "I", "X", "_", "R", "C", "_", "N", "U", "M">>

ZABBIX_LICENSE_YEARS ==
    <<"Z", "A", "B", "B", "I", "X", "_", "L", "I", "C", "E", "N", "S", "E", "_",
      "Y", "E", "A", "R", "S">>

ZABBIX_VERSION_REVISION ==
    <<"Z", "A", "B", "B", "I", "X", "_", "V", "E", "R", "S", "I", "O", "N", "_",
      "R", "E", "V", "I", "S", "I", "O", "N">>

\* The macros the build may bind before the header is read.
MacroNames ==
    {VER_FILEDESCRIPTION_STR, ZABBIX_VERSION_MAJOR, ZABBIX_VERSION_MINOR,
     ZABBIX_VERSION_PATCH, ZABBIX_VERSION_RC, ZABBIX_VERSION_RC_NUM,
     ZABBIX_LICENSE_YEARS, ZABBIX_VERSION_REVISION}

\* An entry of the macro table: undefined, or defined with a replacement list.
Undefined == [def |-> FALSE, body |-> <<>>]

Defined(body) == [def |-> TRUE, body |-> body]

\* The replacement list #define NAME {PLACEHOLDER} gives: three tokens.
Placeholder(name) == <<Punct("{"), Ident(name), Punct("}")>>

---------------------------------------------------------------------------
(* Macro expansion, stringification and literal concatenation. *)

DigitChar == <<"0", "1", "2", "3", "4", "5", "6", "7", "8", "9">>

\* The spelling of a non-negative integer constant.
RECURSIVE Decimal(_)
Decimal(n) ==
    IF n < 10 THEN <<DigitChar[n + 1]>>
    ELSE Decimal(n \div 10) \o <<DigitChar[(n % 10) + 1]>>

\* The spelling of one token, as the # operator writes it.
Spell(t) ==
    CASE t.k = "num" -> Decimal(t.n)
      [] t.k = "str" -> <<"\"">> \o t.s \o <<"\"">>
      [] OTHER -> t.s

RECURSIVE SpellAll(_)
SpellAll(toks) ==
    IF toks = <<>> THEN <<>> ELSE Spell(Head(toks)) \o SpellAll(Tail(toks))

\* Rescanning: an object-like macro's name is replaced by its replacement list,
\* itself rescanned with that name no longer replaced.
RECURSIVE Expand(_, _, _)
Expand(toks, m, hide) ==
    IF toks = <<>> THEN <<>>
    ELSE LET t == Head(toks)
             isMacro == /\ t.k = "id"
                        /\ t.s \in MacroNames
                        /\ t.s \notin hide
         IN  (IF isMacro /\ m[t.s].def
                 THEN Expand(m[t.s].body, m, hide \cup {t.s})
                 ELSE <<t>>)
             \o Expand(Tail(toks), m, hide)

\* #define ZBX_STR2(str) #str
ZBX_STR2(str) == StrLit(SpellAll(str))

\* #define ZBX_STR(str) ZBX_STR2(str): the argument is expanded, then spelled.
ZBX_STR(str, m) == ZBX_STR2(Expand(str, m, {}))

\* Adjacent string literals are one string literal.
RECURSIVE ConcatLiterals(_)
ConcatLiterals(toks) ==
    IF Len(toks) < 2 THEN toks
    ELSE LET rest == ConcatLiterals(Tail(toks))
             t == Head(toks)
         IN  IF t.k = "str" /\ Head(rest).k = "str"
                THEN <<StrLit(t.s \o Head(rest).s)>> \o Tail(rest)
                ELSE <<t>> \o rest

\* The comma-separated fields of a token list.
RECURSIVE SplitComma(_)
SplitComma(toks) ==
    IF toks = <<>> THEN <<<<>>>>
    ELSE LET rest == SplitComma(Tail(toks))
             t == Head(toks)
         IN  IF t = Punct(",") THEN <<<<>>>> \o rest
             ELSE <<<<t>> \o Head(rest)>> \o Tail(rest)

---------------------------------------------------------------------------
(* The derived macros, lines 47 to 55, expanded against a macro table. *)

Dot == StrLit(<<".">>)

\* Mutant: the revision, which the string carries, put in the tuple as well.
VER_FILEVERSION_WithRevision(m) ==
    SplitComma(Expand(<<Ident(ZABBIX_VERSION_MAJOR), Punct(","),
                        Ident(ZABBIX_VERSION_MINOR), Punct(","),
                        Ident(ZABBIX_VERSION_PATCH), Punct(","),
                        Ident(ZABBIX_VERSION_REVISION)>>, m, {}))

VER_FILEVERSION(m) ==
    SplitComma(Expand(<<Ident(ZABBIX_VERSION_MAJOR), Punct(","),
                        Ident(ZABBIX_VERSION_MINOR), Punct(","),
                        Ident(ZABBIX_VERSION_PATCH), Punct(","),
                        Ident(ZABBIX_VERSION_RC_NUM)>>, m, {}))

\* Mutant: the rc-ordinal, which the tuple carries, put in the string as well.
VER_FILEVERSION_STR_WithRcNum(m) ==
    ConcatLiterals(<<ZBX_STR(<<Ident(ZABBIX_VERSION_MAJOR)>>, m), Dot,
                     ZBX_STR(<<Ident(ZABBIX_VERSION_MINOR)>>, m), Dot,
                     ZBX_STR(<<Ident(ZABBIX_VERSION_PATCH)>>, m), Dot,
                     ZBX_STR(<<Ident(ZABBIX_VERSION_RC_NUM)>>, m),
                     StrLit(<<NUL>>)>>)

VER_FILEVERSION_STR(m) ==
    ConcatLiterals(<<ZBX_STR(<<Ident(ZABBIX_VERSION_MAJOR)>>, m), Dot,
                     ZBX_STR(<<Ident(ZABBIX_VERSION_MINOR)>>, m), Dot,
                     ZBX_STR(<<Ident(ZABBIX_VERSION_PATCH)>>, m), Dot,
                     ZBX_STR(<<Ident(ZABBIX_VERSION_REVISION)>>, m),
                     StrLit(<<NUL>>)>>)

\* Mutant: the tuple edited apart from the string, minor and patch exchanged.
VER_PRODUCTVERSION_Swapped(m) ==
    SplitComma(Expand(<<Ident(ZABBIX_VERSION_MAJOR), Punct(","),
                        Ident(ZABBIX_VERSION_PATCH), Punct(","),
                        Ident(ZABBIX_VERSION_MINOR)>>, m, {}))

VER_PRODUCTVERSION(m) ==
    SplitComma(Expand(<<Ident(ZABBIX_VERSION_MAJOR), Punct(","),
                        Ident(ZABBIX_VERSION_MINOR), Punct(","),
                        Ident(ZABBIX_VERSION_PATCH)>>, m, {}))

\* Mutant: the tag passed through ZBX_STR like the numbers before it.
VER_PRODUCTVERSION_STR_TagStringified(m) ==
    ConcatLiterals(<<ZBX_STR(<<Ident(ZABBIX_VERSION_MAJOR)>>, m), Dot,
                     ZBX_STR(<<Ident(ZABBIX_VERSION_MINOR)>>, m), Dot,
                     ZBX_STR(<<Ident(ZABBIX_VERSION_PATCH)>>, m),
                     ZBX_STR(<<Ident(ZABBIX_VERSION_RC)>>, m),
                     StrLit(<<NUL>>)>>)

VER_PRODUCTVERSION_STR(m) ==
    ConcatLiterals(<<ZBX_STR(<<Ident(ZABBIX_VERSION_MAJOR)>>, m), Dot,
                     ZBX_STR(<<Ident(ZABBIX_VERSION_MINOR)>>, m), Dot,
                     ZBX_STR(<<Ident(ZABBIX_VERSION_PATCH)>>, m)>>
                   \o Expand(<<Ident(ZABBIX_VERSION_RC)>>, m, {})
                   \o <<StrLit(<<NUL>>)>>)

VER_COMPANYNAME_STR ==
    <<StrLit(<<"Z", "a", "b", "b", "i", "x", " ", "S", "I", "A", NUL>>)>>

\* Mutant: the " " between the years and the company name left out.
VER_LEGALCOPYRIGHT_STR_NoSpace(m) ==
    ConcatLiterals(<<StrLit(<<"C", "o", "p", "y", "r", "i", "g", "h", "t", " ",
                              "(", "C", ")", " ">>)>>
                   \o Expand(<<Ident(ZABBIX_LICENSE_YEARS)>>, m, {})
                   \o VER_COMPANYNAME_STR)

VER_LEGALCOPYRIGHT_STR(m) ==
    ConcatLiterals(<<StrLit(<<"C", "o", "p", "y", "r", "i", "g", "h", "t", " ",
                              "(", "C", ")", " ">>)>>
                   \o Expand(<<Ident(ZABBIX_LICENSE_YEARS)>>, m, {})
                   \o <<StrLit(<<" ">>)>>
                   \o VER_COMPANYNAME_STR)

VER_PRODUCTNAME_STR ==
    <<StrLit(<<"Z", "a", "b", "b", "i", "x", NUL>>)>>

\* The descriptor resource.rc embeds: every VER_* macro, expanded.
Descriptor(m) ==
    [fileDescription       |-> Expand(<<Ident(VER_FILEDESCRIPTION_STR)>>, m, {}),
     numericFileVersion    |-> VER_FILEVERSION(m),
     fileVersionString     |-> VER_FILEVERSION_STR(m),
     numericProductVersion |-> VER_PRODUCTVERSION(m),
     productVersionString  |-> VER_PRODUCTVERSION_STR(m),
     companyName           |-> VER_COMPANYNAME_STR,
     legalCopyright        |-> VER_LEGALCOPYRIGHT_STR(m),
     productName           |-> VER_PRODUCTNAME_STR]

\* Before the header is read there is no descriptor.
NoDescriptor ==
    [fileDescription       |-> <<>>,
     numericFileVersion    |-> <<>>,
     fileVersionString     |-> <<>>,
     numericProductVersion |-> <<>>,
     productVersionString  |-> <<>>,
     companyName           |-> <<>>,
     legalCopyright        |-> <<>>,
     productName           |-> <<>>]

---------------------------------------------------------------------------
(* What the build may bind. *)

Numbers == {12 * n : n \in 0..MaxMultiple}

IntegerValues == {<<Num(n)>> : n \in Numbers}

\* -1 is two tokens; 1.5 is one preprocessing number.
InvalidValues == {<<Punct("-"), Num(1)>>, <<PPNum(<<"1", ".", "5">>)>>}

TagValues == {<<StrLit(<<>>)>>, <<StrLit(<<"r", "c", "1">>)>>}

YearsValues ==
    {<<StrLit(<<"2", "0", "0", "1", "-", "2", "0", "2", "5">>)>>,
     <<StrLit(<<"2", "0", "2", "5">>)>>}

DescriptionValues ==
    {<<StrLit(<<"Z", "a", "b", "b", "i", "x", " ", "A", "g", "e", "n", "t",
                " ", "2", NUL>>)>>}

\* The components the specification requires to be non-negative integers and
\* for which it names a failure.
CheckedNames ==
    {ZABBIX_VERSION_MAJOR, ZABBIX_VERSION_MINOR, ZABBIX_VERSION_PATCH,
     ZABBIX_VERSION_RC_NUM}

InputValues(name) ==
    CASE name \in CheckedNames -> IntegerValues \cup InvalidValues
      [] name = ZABBIX_VERSION_REVISION -> IntegerValues
      [] name = ZABBIX_VERSION_RC -> TagValues
      [] name = ZABBIX_LICENSE_YEARS -> YearsValues
      [] OTHER -> DescriptionValues

InvalidCount(m) ==
    Cardinality({n \in CheckedNames : m[n].def /\ m[n].body \in InvalidValues})

---------------------------------------------------------------------------
(* The state machine. *)

Init ==
    /\ macros = [n \in MacroNames |-> Undefined]
    /\ ext = [n \in MacroNames |-> Undefined]
    /\ pc = "cmdline"
    /\ desc = NoDescriptor

\* -DNAME=value on the resource compiler's command line.
Bind(name, value) ==
    /\ pc = "cmdline"
    /\ ~macros[name].def
    /\ macros' = [macros EXCEPT ![name] = Defined(value)]
    /\ InvalidCount(macros') <= MaxInvalid
    /\ UNCHANGED <<ext, pc, desc>>

\* resource.rc includes the header: _RESOURCE_H_ is not yet defined.
Include ==
    /\ pc = "cmdline"
    /\ ext' = macros
    /\ pc' = "l25"
    /\ UNCHANGED <<macros, desc>>

\* Mutant: #define without the #ifndef around it, the last writer wins.
IfndefOverwrite(name, body, m) == [m EXCEPT ![name] = Defined(body)]

\* #ifndef NAME / # define NAME body / #endif
Ifndef(name, body, m) ==
    IF m[name].def THEN m ELSE [m EXCEPT ![name] = Defined(body)]

DefaultFileDescription ==
    /\ pc = "l25"
    /\ macros' = Ifndef(VER_FILEDESCRIPTION_STR,
                        Placeholder(VER_FILEDESCRIPTION_STR), macros)
    /\ pc' = "l28"
    /\ UNCHANGED <<ext, desc>>

\* Mutant: the block for ZABBIX_VERSION_MAJOR missing, no default is given.
DefaultMajorMissing ==
    /\ pc = "l28"
    /\ pc' = "l31"
    /\ UNCHANGED <<macros, ext, desc>>

DefaultMajor ==
    /\ pc = "l28"
    /\ macros' = Ifndef(ZABBIX_VERSION_MAJOR,
                        Placeholder(ZABBIX_VERSION_MAJOR), macros)
    /\ pc' = "l31"
    /\ UNCHANGED <<ext, desc>>

DefaultMinor ==
    /\ pc = "l31"
    /\ macros' = Ifndef(ZABBIX_VERSION_MINOR,
                        Placeholder(ZABBIX_VERSION_MINOR), macros)
    /\ pc' = "l34"
    /\ UNCHANGED <<ext, desc>>

DefaultPatch ==
    /\ pc = "l34"
    /\ macros' = Ifndef(ZABBIX_VERSION_PATCH,
                        Placeholder(ZABBIX_VERSION_PATCH), macros)
    /\ pc' = "l37"
    /\ UNCHANGED <<ext, desc>>

DefaultRc ==
    /\ pc = "l37"
    /\ macros' = Ifndef(ZABBIX_VERSION_RC,
                        Placeholder(ZABBIX_VERSION_RC), macros)
    /\ pc' = "l40"
    /\ UNCHANGED <<ext, desc>>

DefaultRcNum ==
    /\ pc = "l40"
    /\ macros' = Ifndef(ZABBIX_VERSION_RC_NUM,
                        Placeholder(ZABBIX_RC_NUM), macros)
    /\ pc' = "l43"
    /\ UNCHANGED <<ext, desc>>

DefaultLicenseYears ==
    /\ pc = "l43"
    /\ macros' = Ifndef(ZABBIX_LICENSE_YEARS,
                        Placeholder(ZABBIX_LICENSE_YEARS), macros)
    /\ pc' = "l47"
    /\ UNCHANGED <<ext, desc>>

\* Mutant: a header that rejects a negative or non-integral component and
\* leaves no descriptor.
ResolveValidated ==
    /\ pc = "l47"
    /\ desc' = IF InvalidCount(macros) > 0 THEN NoDescriptor
               ELSE Descriptor(macros)
    /\ pc' = "done"
    /\ UNCHANGED <<macros, ext>>

\* Lines 47 to 55 define the VER_* macros; resource.rc expands them.
Resolve ==
    /\ pc = "l47"
    /\ desc' = Descriptor(macros)
    /\ pc' = "done"
    /\ UNCHANGED <<macros, ext>>

Next ==
    \/ \E name \in MacroNames : \E value \in InputValues(name) : Bind(name, value)
    \/ Include
    \/ DefaultFileDescription
    \/ DefaultMajor
    \/ DefaultMinor
    \/ DefaultPatch
    \/ DefaultRc
    \/ DefaultRcNum
    \/ DefaultLicenseYears
    \/ Resolve

Spec == Init /\ [][Next]_vars

---------------------------------------------------------------------------
(* Reading a descriptor: what the properties below are stated in. *)

\* The text of a C string: the characters before the first NUL.
CStr(chars) ==
    LET nuls == {i \in 1..Len(chars) : chars[i] = NUL}
    IN  IF nuls = {} THEN chars
        ELSE SubSeq(chars, 1, (CHOOSE i \in nuls : \A j \in nuls : i <= j) - 1)

\* The dot-separated segments of a text.
SplitDot(chars) ==
    LET dots == {i \in 1..Len(chars) : chars[i] = "."}
        count == Cardinality(dots)
        Nth(k) == CHOOSE i \in dots : Cardinality({j \in dots : j < i}) = k - 1
        First(k) == IF k = 1 THEN 1 ELSE Nth(k - 1) + 1
        Last(k) == IF k = count + 1 THEN Len(chars) ELSE Nth(k) - 1
    IN  [k \in 1..(count + 1) |-> SubSeq(chars, First(k), Last(k))]

IsDigits(chars) ==
    /\ chars # <<>>
    /\ \A i \in 1..Len(chars) : \E d \in 1..Len(DigitChar) : chars[i] = DigitChar[d]

DigitValue(c) == CHOOSE d \in 0..(Len(DigitChar) - 1) : DigitChar[d + 1] = c

\* The integer a run of decimal digits denotes.
RECURSIVE ParseDecimal(_)
ParseDecimal(chars) ==
    IF Len(chars) = 1 THEN DigitValue(chars[1])
    ELSE Len(DigitChar) * ParseDecimal(SubSeq(chars, 1, Len(chars) - 1))
         + DigitValue(chars[Len(chars)])

\* A field that came out as one string literal, and its text.
IsString(toks) == Len(toks) = 1 /\ toks[1].k = "str"

Text(toks) == CStr(toks[1].s)

\* A tuple position that is one integer constant, and its value.
IsIntegerField(toks) == Len(toks) = 1 /\ toks[1].k = "num"

IsPrefix(p, chars) ==
    Len(p) <= Len(chars) /\ SubSeq(chars, 1, Len(p)) = p

IsSuffix(p, chars) ==
    Len(p) <= Len(chars)
    /\ SubSeq(chars, Len(chars) - Len(p) + 1, Len(chars)) = p

Contains(chars, p) ==
    \E i \in 0..(Len(chars) - Len(p)) : SubSeq(chars, i + 1, i + Len(p)) = p

\* What the build supplied: the command line as it stood when the header
\* was included.
Supplied(name) == ext[name].def

SuppliedInteger(name) == Supplied(name) /\ IsIntegerField(ext[name].body)

SuppliedInvalid(name) == Supplied(name) /\ ext[name].body \in InvalidValues

SuppliedString(name) == Supplied(name) /\ IsString(ext[name].body)

IntOf(name) == ext[name].body[1].n

RequiredNames ==
    {ZABBIX_VERSION_MAJOR, ZABBIX_VERSION_MINOR, ZABBIX_VERSION_PATCH}

Populated(d) ==
    /\ d.fileDescription # <<>>
    /\ d.numericFileVersion # <<>>
    /\ d.fileVersionString # <<>>
    /\ d.numericProductVersion # <<>>
    /\ d.productVersionString # <<>>
    /\ d.companyName # <<>>
    /\ d.legalCopyright # <<>>
    /\ d.productName # <<>>

---------------------------------------------------------------------------
(* Properties of the resolved descriptor. *)

\* What the descriptor must carry for a component: the supplied replacement
\* list if the build supplied one, the header's placeholder otherwise.
Chosen(name, placeholder) ==
    IF Supplied(name) THEN ext[name].body ELSE Placeholder(placeholder)

ChosenMajor == Chosen(ZABBIX_VERSION_MAJOR, ZABBIX_VERSION_MAJOR)

ChosenMinor == Chosen(ZABBIX_VERSION_MINOR, ZABBIX_VERSION_MINOR)

ChosenPatch == Chosen(ZABBIX_VERSION_PATCH, ZABBIX_VERSION_PATCH)

ChosenRcNum == Chosen(ZABBIX_VERSION_RC_NUM, ZABBIX_RC_NUM)

ChosenRc == Chosen(ZABBIX_VERSION_RC, ZABBIX_VERSION_RC)

ChosenYears == Chosen(ZABBIX_LICENSE_YEARS, ZABBIX_LICENSE_YEARS)

\* "major.minor.patch" as the chosen values spell it.
ChosenDotted ==
    SpellAll(ChosenMajor) \o <<".">> \o SpellAll(ChosenMinor) \o <<".">>
    \o SpellAll(ChosenPatch)

\* The first literal of a version string field.
LeadingText(toks) == CStr(Head(toks).s)

\* C1: define-once-if-absent.  When the header has been resolved, every field
\* of the descriptor that uses an overridable component (file description,
\* major, minor, patch, release-candidate tag, release-candidate ordinal,
\* license years) carries the value the build supplied for it, and carries the
\* header's built-in default only if the build supplied none.
C1_DefineOnceIfAbsent ==
    pc = "done" =>
        /\ desc.fileDescription
              = Chosen(VER_FILEDESCRIPTION_STR, VER_FILEDESCRIPTION_STR)
        /\ desc.numericFileVersion
              = <<ChosenMajor, ChosenMinor, ChosenPatch, ChosenRcNum>>
        /\ desc.numericProductVersion = <<ChosenMajor, ChosenMinor, ChosenPatch>>
        /\ Head(desc.fileVersionString).k = "str"
        /\ IsPrefix(ChosenDotted \o <<".">>, LeadingText(desc.fileVersionString))
        /\ Head(desc.productVersionString).k = "str"
        /\ IF SuppliedString(ZABBIX_VERSION_RC)
              THEN /\ IsString(desc.productVersionString)
                   /\ Text(desc.productVersionString)
                         = ChosenDotted \o ChosenRc[1].s
              ELSE desc.productVersionString
                      = <<StrLit(ChosenDotted)>> \o ChosenRc \o <<StrLit(<<NUL>>)>>
        /\ Head(desc.legalCopyright).k = "str"
        /\ IF SuppliedString(ZABBIX_LICENSE_YEARS)
              THEN /\ IsString(desc.legalCopyright)
                   /\ Contains(Text(desc.legalCopyright),
                               <<" ">> \o ChosenYears[1].s \o <<" ">>)
              ELSE SubSeq(desc.legalCopyright, 2, 4) = ChosenYears

\* C1 witness: a resolved build that supplied some components and left
\* others to their defaults.
C1_Witness ==
    /\ pc = "done"
    /\ Supplied(ZABBIX_VERSION_MAJOR)
    /\ Supplied(ZABBIX_VERSION_RC)
    /\ Supplied(ZABBIX_LICENSE_YEARS)
    /\ Supplied(VER_FILEDESCRIPTION_STR)
    /\ ~Supplied(ZABBIX_VERSION_MINOR)
    /\ ~Supplied(ZABBIX_VERSION_RC_NUM)

\* C2: when major, minor, patch and revision are supplied as non-negative
\* integers, fileVersionString is one string whose text has exactly four
\* dot-separated segments, each a run of digits, denoting major, minor, patch
\* and revision in that order.
C2_FileVersionString ==
    (/\ pc = "done"
     /\ \A n \in RequiredNames \cup {ZABBIX_VERSION_REVISION} : SuppliedInteger(n))
    => /\ IsString(desc.fileVersionString)
       /\ LET seg == SplitDot(Text(desc.fileVersionString))
          IN  /\ Len(seg) = 4
              /\ \A i \in 1..4 : IsDigits(seg[i])
              /\ ParseDecimal(seg[1]) = IntOf(ZABBIX_VERSION_MAJOR)
              /\ ParseDecimal(seg[2]) = IntOf(ZABBIX_VERSION_MINOR)
              /\ ParseDecimal(seg[3]) = IntOf(ZABBIX_VERSION_PATCH)
              /\ ParseDecimal(seg[4]) = IntOf(ZABBIX_VERSION_REVISION)

\* C2 witness: a resolved build with a two-digit major, and a revision that
\* differs from the release-candidate ordinal.
C2_Witness ==
    /\ pc = "done"
    /\ \A n \in RequiredNames \cup {ZABBIX_VERSION_REVISION} : SuppliedInteger(n)
    /\ IntOf(ZABBIX_VERSION_MAJOR) >= 10
    /\ IntOf(ZABBIX_VERSION_MINOR) = 0
    /\ SuppliedInteger(ZABBIX_VERSION_RC_NUM)
    /\ IntOf(ZABBIX_VERSION_RC_NUM) # IntOf(ZABBIX_VERSION_REVISION)

\* C3: when major, minor and patch are supplied as non-negative integers and
\* the release-candidate tag as a string, productVersionString is one string
\* whose text is three dot-separated digit runs denoting major, minor and
\* patch, followed at once by the tag exactly as supplied.
C3_ProductVersionString ==
    (/\ pc = "done"
     /\ \A n \in RequiredNames : SuppliedInteger(n)
     /\ SuppliedString(ZABBIX_VERSION_RC))
    => /\ IsString(desc.productVersionString)
       /\ LET text == Text(desc.productVersionString)
              tag == ext[ZABBIX_VERSION_RC].body[1].s
              seg == SplitDot(SubSeq(text, 1, Len(text) - Len(tag)))
          IN  /\ IsSuffix(tag, text)
              /\ Len(seg) = 3
              /\ \A i \in 1..3 : IsDigits(seg[i])
              /\ ParseDecimal(seg[1]) = IntOf(ZABBIX_VERSION_MAJOR)
              /\ ParseDecimal(seg[2]) = IntOf(ZABBIX_VERSION_MINOR)
              /\ ParseDecimal(seg[3]) = IntOf(ZABBIX_VERSION_PATCH)

\* C3 witness: a resolved build with a non-empty release-candidate tag.
C3_Witness ==
    /\ pc = "done"
    /\ \A n \in RequiredNames : SuppliedInteger(n)
    /\ SuppliedString(ZABBIX_VERSION_RC)
    /\ ext[ZABBIX_VERSION_RC].body[1].s = <<"r", "c", "1">>
    /\ IntOf(ZABBIX_VERSION_PATCH) = 0

\* C4: when major, minor, patch and the release-candidate ordinal are supplied
\* as non-negative integers, numericFileVersion is the four integers (major,
\* minor, patch, rc-ordinal) and numericProductVersion the three integers
\* (major, minor, patch), in that order; the revision is in neither.
C4_NumericTuples ==
    (/\ pc = "done"
     /\ \A n \in CheckedNames : SuppliedInteger(n))
    => /\ Len(desc.numericFileVersion) = 4
       /\ Len(desc.numericProductVersion) = 3
       /\ \A i \in 1..4 : IsIntegerField(desc.numericFileVersion[i])
       /\ \A i \in 1..3 : IsIntegerField(desc.numericProductVersion[i])
       /\ [i \in 1..4 |-> desc.numericFileVersion[i][1].n]
             = <<IntOf(ZABBIX_VERSION_MAJOR), IntOf(ZABBIX_VERSION_MINOR),
                 IntOf(ZABBIX_VERSION_PATCH), IntOf(ZABBIX_VERSION_RC_NUM)>>
       /\ [i \in 1..3 |-> desc.numericProductVersion[i][1].n]
             = <<IntOf(ZABBIX_VERSION_MAJOR), IntOf(ZABBIX_VERSION_MINOR),
                 IntOf(ZABBIX_VERSION_PATCH)>>

\* C4 witness: a resolved build whose four tuple components are integers,
\* not all equal, with a revision that differs from the rc-ordinal.
C4_Witness ==
    /\ pc = "done"
    /\ \A n \in CheckedNames : SuppliedInteger(n)
    /\ IntOf(ZABBIX_VERSION_MINOR) # IntOf(ZABBIX_VERSION_PATCH)
    /\ SuppliedInteger(ZABBIX_VERSION_REVISION)
    /\ IntOf(ZABBIX_VERSION_REVISION) # IntOf(ZABBIX_VERSION_RC_NUM)

\* The position of a component in numericFileVersion.
TuplePosition(name) ==
    CASE name = ZABBIX_VERSION_MAJOR -> 1
      [] name = ZABBIX_VERSION_MINOR -> 2
      [] name = ZABBIX_VERSION_PATCH -> 3
      [] name = ZABBIX_VERSION_RC_NUM -> 4

C6_Original ==
    \A n \in RequiredNames :
        (pc # "cmdline" /\ ~Supplied(n)) =>
            /\ ~macros[n].def
            /\ desc = NoDescriptor

\* C6 as amended: when major, minor or patch is not supplied, resolution does
\* not fail: the header's #ifndef block binds the missing component to its
\* built-in default, the placeholder {ZABBIX_VERSION_MAJOR}, _MINOR or
\* _PATCH, and the populated descriptor carries that default in both tuples
\* and both version strings.
C6_RequiredDefaulted ==
    pc = "done" =>
        \A n \in RequiredNames :
            ~Supplied(n) =>
                /\ macros[n] = Defined(Placeholder(n))
                /\ Populated(desc)
                /\ desc.numericFileVersion[TuplePosition(n)] = Placeholder(n)
                /\ desc.numericProductVersion[TuplePosition(n)] = Placeholder(n)
                /\ Contains(LeadingText(desc.fileVersionString),
                            <<"{">> \o n \o <<"}", ".">>)
                /\ Contains(LeadingText(desc.productVersionString),
                            <<"{">> \o n \o <<"}">>)

\* C6 witness: a resolved build that supplied minor and patch but no major.
C6_Witness ==
    /\ pc = "done"
    /\ ~Supplied(ZABBIX_VERSION_MAJOR)
    /\ SuppliedInteger(ZABBIX_VERSION_MINOR)
    /\ SuppliedInteger(ZABBIX_VERSION_PATCH)
    /\ desc # NoDescriptor

\* The seven build-time inputs the specification names.
InputNames == MacroNames \ {VER_FILEDESCRIPTION_STR}

\* C7 as written: each of major, minor, patch, revision, rc-tag, rc-ordinal
\* and license-years that the build leaves undefined has taken a built-in
\* default once the header is resolved, and with the revision absent the
\* fourth segment of fileVersionString is still a defined value, not the bare
\* name of the undefined macro.
C7_EveryInputDefaulted ==
    pc = "done" =>
        /\ \A n \in InputNames : ~Supplied(n) => macros[n].def
        /\ ~Supplied(ZABBIX_VERSION_REVISION) =>
              ~IsSuffix(<<".">> \o ZABBIX_VERSION_REVISION,
                        LeadingText(desc.fileVersionString))

\* C8: legalCopyright is "Copyright (C) ", the license years exactly as
\* supplied, one space, and "Zabbix SIA".  Supplied as a string the years
\* make it one string with that text; left to the default they stand as the
\* placeholder's three tokens between the two literals.
C8_LegalCopyright ==
    pc = "done" =>
        LET prefix == <<"C", "o", "p", "y", "r", "i", "g", "h", "t", " ",
                        "(", "C", ")", " ">>
            company == <<" ", "Z", "a", "b", "b", "i", "x", " ", "S", "I", "A">>
        IN  IF SuppliedString(ZABBIX_LICENSE_YEARS)
               THEN /\ IsString(desc.legalCopyright)
                    /\ desc.legalCopyright[1].s
                          = prefix \o ext[ZABBIX_LICENSE_YEARS].body[1].s
                            \o company \o <<NUL>>
               ELSE desc.legalCopyright
                       = <<StrLit(prefix)>> \o Placeholder(ZABBIX_LICENSE_YEARS)
                         \o <<StrLit(company \o <<NUL>>)>>

\* C8 witness: a resolved build whose license years are "2001-2025".
C8_Witness ==
    /\ pc = "done"
    /\ SuppliedString(ZABBIX_LICENSE_YEARS)
    /\ ext[ZABBIX_LICENSE_YEARS].body[1].s
          = <<"2", "0", "0", "1", "-", "2", "0", "2", "5">>
    /\ IsString(desc.legalCopyright)

\* The spelling of major, minor or patch has no dot of its own.
DotFree(name) == ~Contains(SpellAll(macros[name].body), <<".">>)

====
